---- MODULE Spec2Model ----
(***************************************************************************)
(* Model of the job-to-resume relevance scoring and ranking routine of     *)
(* agents/searcher.py: load_resume_text, score_job_against_resume,         *)
(* load_jobs_from_csv and find_matching_jobs_from_resume; and of the       *)
(* orchestration of main.py: check_environment, safe_import,               *)
(* run_enhancement_pipeline, generate_summary_report and main.             *)
(*                                                                         *)
(* A text is a sequence of one-character strings.  A dict value is a       *)
(* tagged record (a Python str, int or float NaN).  A posting (dict) is a  *)
(* function from key names to values.  The list of dicts returned by       *)
(* load_jobs_from_csv is the heap `jobs`; Python lists of postings         *)
(* (scored_jobs, sorted_jobs, the result) are sequences of references      *)
(* (indices) into that heap, as the code's lists hold the same dict        *)
(* objects.                                                                *)
(***************************************************************************)
EXTENDS Integers, Sequences, FiniteSets, TLC

VARIABLES pc, resume_file, csv_file, max_results, resume_text, jobs, result,
          calls, job, score, worker,
          mods, results, report,
          env, modules, exit_status

\* the state of run_enhancement_pipeline and generate_summary_report (main.py)
pipe_vars == <<mods, results, report>>

\* the state of main and safe_import (main.py)
main_vars == <<env, modules, exit_status>>

vars == <<pc, resume_file, csv_file, max_results, resume_text, jobs, result,
          calls, job, score, worker, mods, results, report, env, modules,
          exit_status>>

\* the values of the variables of main.py while searcher.py alone is run
NoPipe == mods = <<>> /\ results = <<>> /\ report = <<>>

NoMain == env = <<>> /\ modules = [kind |-> "unset", names |-> {}] /\ exit_status = 0

(***************************************************************************)
(* Bounds                                                                  *)
(***************************************************************************)
MaxTextLen == 3
MaxJobs == 3

Alphabet == {"a", "A", "0", " "}

Texts == UNION {[1..m -> Alphabet] : m \in 0..MaxTextLen}

(***************************************************************************)
(* Python values and the str methods the scorer uses                       *)
(***************************************************************************)
StrVal(s) == [kind |-> "str", s |-> s]
IntVal(n) == [kind |-> "int", n |-> n]
NaN == [kind |-> "nan"]

DigitChar(d) == <<"0", "1", "2", "3", "4", "5", "6", "7", "8", "9">>[d + 1]

RECURSIVE Digits(_)
Digits(n) == IF n < 10 THEN <<DigitChar(n)>>
             ELSE Append(Digits(n \div 10), DigitChar(n % 10))

\* str(job_value): a str is itself, a non-negative int its decimal digits,
\* the float NaN of an empty CSV cell the text "nan".
PyStr(v) == CASE v.kind = "str" -> v.s
              [] v.kind = "int" -> Digits(v.n)
              [] v.kind = "nan" -> <<"n", "a", "n">>

LowerChar(c) == IF c = "A" THEN "a" ELSE c

\* str.lower()
Lower(t) == [i \in 1..Len(t) |-> LowerChar(t[i])]

IsSpace(c) == c \in {" ", "\t", "\n"}

\* str.split() with no separator: runs of whitespace separate the words and
\* no empty word is produced.
RECURSIVE SplitFrom(_, _, _, _)
SplitFrom(t, i, cur, acc) ==
    IF i > Len(t)
    THEN IF cur = <<>> THEN acc ELSE Append(acc, cur)
    ELSE IF IsSpace(t[i])
         THEN SplitFrom(t, i + 1, <<>>, IF cur = <<>> THEN acc ELSE Append(acc, cur))
         ELSE SplitFrom(t, i + 1, Append(cur, t[i]), acc)

Split(t) == SplitFrom(t, 1, <<>>, <<>>)

\* set(list)
ToSet(s) == {s[i] : i \in 1..Len(s)}

WordsNoLower(t) == ToSet(Split(t))

\* set(text.lower().split())
Words(t) == ToSet(Split(Lower(t)))

(***************************************************************************)
(* score_job_against_resume                                                *)
(***************************************************************************)
keys_to_check == <<"skills", "Job Title", "Job Description", "location", "Role">>

GetDefaultZero(d, key) == IF key \in DOMAIN d THEN d[key] ELSE IntVal(0)

\* job.get(key, "")
Get(d, key) == IF key \in DOMAIN d THEN d[key] ELSE StrVal(<<>>)

\* the for loop over keys_to_check, from key number k with running total s
RECURSIVE ScoreLoop(_, _, _, _)
ScoreLoop(d, resume_words, k, s) ==
    IF k > Len(keys_to_check) THEN s
    ELSE LET job_value == Get(d, keys_to_check[k])
             job_words == Words(PyStr(job_value))
             overlap == resume_words \cap job_words
         IN ScoreLoop(d, resume_words, k + 1, s + Cardinality(overlap))

score_job_against_resume(d, text) == ScoreLoop(d, Words(text), 1, 0)

(***************************************************************************)
(* Specification SpecScore: one call of score_job_against_resume on any    *)
(* dict whose keys are among the checked keys.                             *)
(***************************************************************************)
FieldValues == { StrVal(<<"a", " ", "0">>),
                 StrVal(<<"A", ",", "\t", "a">>),
                 IntVal(0) }

ScoreKeys == {keys_to_check[k] : k \in 1..Len(keys_to_check)}

Dicts == UNION {[D -> FieldValues] : D \in SUBSET ScoreKeys}

InitScore ==
    /\ NoPipe /\ NoMain
    /\ pc = "ready"
    /\ job \in Dicts
    /\ resume_text \in Texts
    /\ score = 0
    /\ resume_file = [ok |-> FALSE, text |-> <<>>]
    /\ csv_file = [ok |-> FALSE, rows |-> <<>>]
    /\ max_results = 0
    /\ jobs = <<>>
    /\ result = <<>>
    /\ calls = <<>>
    /\ worker = <<>>

\* the call returns its total; neither the dict nor the text is assigned
ScoreJob ==
    /\ pc = "ready"
    /\ score' = score_job_against_resume(job, resume_text)
    /\ pc' = "returned"
    /\ UNCHANGED <<job, resume_text, resume_file, csv_file, max_results, jobs,
                   result, calls, worker,
                   pipe_vars, main_vars>>

NextScore == ScoreJob

SpecScore == InitScore /\ [][NextScore]_vars

(***************************************************************************)
(* The files, load_resume_text and load_jobs_from_csv                      *)
(***************************************************************************)
\* open(resume_path).read() inside try/except Exception: the text, or "" on
\* any failure
load_resume_text(file) == IF file.ok THEN file.text ELSE <<>>

\* a loader that fails on a file without records
load_jobs_nonempty_only(file) ==
    IF file.ok /\ file.rows # <<>> THEN [raised |-> FALSE, rows |-> file.rows]
    ELSE [raised |-> TRUE, rows |-> <<>>]

\* pd.read_csv(path) then to_dict(orient="records"): no try/except, so a
\* failure of read_csv is raised to the caller
load_jobs_from_csv(file) ==
    IF file.ok THEN [raised |-> FALSE, rows |-> file.rows]
    ELSE [raised |-> TRUE, rows |-> <<>>]

(***************************************************************************)
(* The scoring loop, sorted(..., reverse=True) and the slice               *)
(***************************************************************************)
SetItemReplace(d, key, val) == [k \in {key} |-> val]

\* d[key] = val
SetItem(d, key, val) ==
    [k \in DOMAIN d \cup {key} |-> IF k = key THEN val ELSE d[k]]

\* the same loop with the total carried over from one posting to the next
RECURSIVE ScoreAllCarry(_, _, _, _)
ScoreAllCarry(heap, text, i, carry) ==
    IF i > Len(heap) THEN heap
    ELSE LET s == carry + score_job_against_resume(heap[i], text)
         IN ScoreAllCarry([heap EXCEPT ![i] = SetItem(heap[i], "match_score", IntVal(s))],
                          text, i + 1, s)

ScoreAllCarried(heap, text, i) == ScoreAllCarry(heap, text, i, 0)

\* for job in jobs: job['match_score'] = score_job_against_resume(job, text),
\* from posting number i on; the dicts are changed in place
RECURSIVE ScoreAll(_, _, _)
ScoreAll(heap, text, i) ==
    IF i > Len(heap) THEN heap
    ELSE LET s == score_job_against_resume(heap[i], text)
         IN ScoreAll([heap EXCEPT ![i] = SetItem(heap[i], "match_score", IntVal(s))],
                     text, i + 1)

\* key=lambda x: x['match_score']
SortKey(heap, ref) == heap[ref]["match_score"].n

Reverse(s) == [i \in 1..Len(s) |-> s[Len(s) + 1 - i]]

\* stable insertion of ref into an ascending list: after every element whose
\* key is not greater
RECURSIVE InsertAsc(_, _, _)
InsertAsc(s, ref, heap) ==
    IF s = <<>> THEN <<ref>>
    ELSE IF SortKey(heap, ref) < SortKey(heap, Head(s))
         THEN <<ref>> \o s
         ELSE <<Head(s)>> \o InsertAsc(Tail(s), ref, heap)

RECURSIVE SortAsc(_, _, _)
SortAsc(s, heap, acc) ==
    IF s = <<>> THEN acc
    ELSE SortAsc(Tail(s), heap, InsertAsc(acc, Head(s), heap))

sorted_ascending(s, heap) == SortAsc(s, heap, <<>>)

sorted_reversed_after(s, heap) == Reverse(SortAsc(s, heap, <<>>))

\* sorted(s, key=..., reverse=True): list.sort reverses the list, sorts it
\* stably in ascending order of the key and reverses the outcome
sorted(s, heap) == Reverse(SortAsc(Reverse(s), heap, <<>>))

SliceOneMore(s, k) == SubSeq(s, 1, IF k + 1 < Len(s) THEN k + 1 ELSE Len(s))

\* s[:k]: the first k elements, all of s when k > len(s), and for k < 0
\* all but the last -k
Slice(s, k) ==
    LET stop == IF k < 0 THEN (IF Len(s) + k < 0 THEN 0 ELSE Len(s) + k)
                ELSE (IF k > Len(s) THEN Len(s) ELSE k)
    IN SubSeq(s, 1, stop)

IsFalsyNever(text) == FALSE

\* `not resume_text`
IsFalsy(text) == Len(text) = 0

(***************************************************************************)
(* Specification Spec: one call of find_matching_jobs_from_resume          *)
(***************************************************************************)
\* The rows of one CSV file have the same columns; an empty cell is NaN.
Row(skills, title, company) ==
    [k \in {"skills", "Job Title", "Company"} |->
        CASE k = "skills" -> skills
          [] k = "Job Title" -> title
          [] k = "Company" -> company]

JobPool == { Row(StrVal(<<"a", " ", "0">>), StrVal(<<"A">>), StrVal(<<"a">>)),
             Row(StrVal(<<"a", ",", "\t", "A">>), IntVal(0), StrVal(<<"0">>)),
             Row(NaN, StrVal(<<"a", "a", " ", "0">>), StrVal(<<"a">>)),
             Row(StrVal(<<"0">>), StrVal(<<"0", " ", "0">>), NaN) }

\* the same rows in a file that has a match_score column already
WithScoreColumn(rows) ==
    [i \in 1..Len(rows) |-> SetItem(rows[i], "match_score", IntVal(7))]

RowLists == UNION {[1..n -> JobPool] : n \in 0..MaxJobs}

CsvFiles == {[ok |-> FALSE, rows |-> <<>>]}
            \cup {[ok |-> TRUE, rows |-> r] : r \in RowLists}
            \cup {[ok |-> TRUE, rows |-> WithScoreColumn(r)] : r \in RowLists}

\* the resume texts of the calls: empty, whitespace only, one word, two words
ResumePool == { <<>>, <<" ">>, <<"a">>, <<"0">>, <<"a", "a">>, <<"A", " ", "0">> }

ResumeFiles == {[ok |-> FALSE, text |-> <<>>]}
               \cup {[ok |-> TRUE, text |-> t] : t \in ResumePool}

Init ==
    /\ NoPipe /\ NoMain
    /\ pc = "ready"
    /\ resume_file \in ResumeFiles
    /\ csv_file \in CsvFiles
    /\ max_results \in (-1)..(MaxJobs + 1)
    /\ resume_text = <<>>
    /\ jobs = <<>>
    /\ result = <<>>
    /\ calls = <<>>
    /\ job = <<>>
    /\ score = 0
    /\ worker = <<>>

Refs(heap) == [i \in 1..Len(heap) |-> i]

ScoreCalls(n) == [i \in 1..n |-> "score_job_against_resume"]

find_matching_jobs_from_resume ==
    /\ pc = "ready"
    /\ LET text == load_resume_text(resume_file) IN
       /\ resume_text' = text
       /\ IF IsFalsy(text)
          THEN /\ pc' = "returned"
               /\ result' = <<>>
               /\ jobs' = <<>>
               /\ calls' = <<"load_resume_text">>
          ELSE LET loaded == load_jobs_from_csv(csv_file) IN
               IF loaded.raised
               THEN /\ pc' = "raised"
                    /\ result' = <<>>
                    /\ jobs' = <<>>
                    /\ calls' = <<"load_resume_text", "load_jobs_from_csv">>
               ELSE IF loaded.rows = <<>>
               THEN /\ pc' = "returned"
                    /\ result' = <<>>
                    /\ jobs' = loaded.rows
                    /\ calls' = <<"load_resume_text", "load_jobs_from_csv">>
               ELSE LET heap == ScoreAll(loaded.rows, text, 1)
                        scored_jobs == Refs(heap)
                        sorted_jobs == sorted(scored_jobs, heap)
                    IN /\ pc' = "returned"
                       /\ jobs' = heap
                       /\ result' = Slice(sorted_jobs, max_results)
                       /\ calls' = <<"load_resume_text", "load_jobs_from_csv">>
                                   \o ScoreCalls(Len(heap)) \o <<"sorted">>
    /\ UNCHANGED <<resume_file, csv_file, max_results, job, score, worker,
                   pipe_vars, main_vars>>

Next == find_matching_jobs_from_resume

Spec == Init /\ [][Next]_vars

(***************************************************************************)
(* Specification SpecPar: the scoring loop of                              *)
(* find_matching_jobs_from_resume run by independent workers, one per      *)
(* posting, in any interleaving.  A worker reads its posting and the       *)
(* resume text and computes the score, then writes 'match_score' into its  *)
(* posting; the sort and the slice run once every score is written.       *)
(***************************************************************************)
InitPar ==
    /\ NoPipe /\ NoMain
    /\ pc = "scoring"
    /\ resume_file \in {f \in ResumeFiles : f.ok /\ f.text # <<>>}
    /\ resume_text = resume_file.text
    /\ csv_file \in {[ok |-> TRUE, rows |-> r] : r \in RowLists \ {<<>>}}
    /\ jobs = csv_file.rows
    /\ max_results \in {1, MaxJobs}
    /\ worker = [i \in 1..Len(jobs) |-> [st |-> "todo", score |-> 0]]
    /\ result = <<>>
    /\ calls = <<"load_resume_text", "load_jobs_from_csv">>
    /\ job = <<>>
    /\ score = 0

\* score = score_job_against_resume(job, resume_text)
Compute(i) ==
    /\ pc = "scoring"
    /\ worker[i].st = "todo"
    /\ worker' = [worker EXCEPT ![i] =
                    [st |-> "computed",
                     score |-> score_job_against_resume(jobs[i], resume_text)]]
    /\ calls' = Append(calls, "score_job_against_resume")
    /\ UNCHANGED <<pc, resume_file, csv_file, max_results, resume_text, jobs,
                   result, job, score,
                   pipe_vars, main_vars>>

\* job['match_score'] = score
Write(i) ==
    /\ pc = "scoring"
    /\ worker[i].st = "computed"
    /\ jobs' = [jobs EXCEPT ![i] = SetItem(jobs[i], "match_score", IntVal(worker[i].score))]
    /\ worker' = [worker EXCEPT ![i].st = "written"]
    /\ UNCHANGED <<pc, resume_file, csv_file, max_results, resume_text, result,
                   calls, job, score,
                   pipe_vars, main_vars>>

\* sorted(scored_jobs, key=..., reverse=True)[:max_results]
SortAll ==
    /\ pc = "scoring"
    /\ \A i \in 1..Len(jobs) : worker[i].st = "written"
    /\ result' = Slice(sorted(Refs(jobs), jobs), max_results)
    /\ calls' = Append(calls, "sorted")
    /\ pc' = "returned"
    /\ UNCHANGED <<resume_file, csv_file, max_results, resume_text, jobs,
                   worker, job, score,
                   pipe_vars, main_vars>>

NextPar ==
    \/ \E i \in 1..Len(jobs) : Compute(i)
    \/ \E i \in 1..Len(jobs) : Write(i)
    \/ SortAll

SpecPar == InitPar /\ [][NextPar]_vars

(***************************************************************************)
(* run_enhancement_pipeline and generate_summary_report (main.py)          *)
(*                                                                         *)
(* The step functions and write_file are passed in `modules`; `mods` is    *)
(* what they do when called.  A found job is its number in the list the    *)
(* search returns.  results is the dict the pipeline builds, a function    *)
(* from its keys to their values; a dict of clusters or of questions is a  *)
(* function from cluster ids.                                              *)
(***************************************************************************)
\* the most jobs the search returns
MaxFound == 3

\* cluster_jobs(jobs=..., n_clusters=3)
n_clusters == 3

\* the files the pipeline saves
Outputs == {"improved_resume", "resume_gaps", "jobs", "clusters",
            "interview_questions"}

\* str(e) of the exceptions raised: an exception may carry no message
Messages == {"", "boom"}

SearchBehaviours == {[raises |-> TRUE, n |-> 0]}
                    \cup {[raises |-> FALSE, n |-> k] : k \in 0..MaxFound}

\* cluster_jobs gives every job one label of 0..n_clusters-1, or raises
ClusterBehaviours ==
    {[raises |-> TRUE, labels |-> <<>>]}
    \cup {[raises |-> FALSE, labels |-> l] :
              l \in [1..MaxFound -> 0..(n_clusters - 1)]}

ModuleBehaviours ==
    [ enh_raises : BOOLEAN,
      search : SearchBehaviours,
      cluster : ClusterBehaviours,
      \* the cluster ids for which generate_interview_questions raises
      iq_fail : {{}} \cup {{c} : c \in 0..(n_clusters - 1)},
      \* the files whose serialisation or write_file raises
      save_fails : SUBSET Outputs,
      msg : Messages ]

\* the dict enhance_and_suggest returns
EnhancementResult ==
    [improved_resume |-> "improved", gaps |-> <<"gap">>,
     upskill_recommendations |-> <<>>]

\* the dict of the except branch of step 1
EnhancementFallback(msg) ==
    [improved_resume |-> "resume", gaps |-> <<"Enhancement error">>,
     upskill_recommendations |-> <<>>, error |-> msg]

\* Step 1: resume enhancement and gap analysis
Step1(m, st) ==
    LET failed(cs) == [results |-> SetItem(st.results, "enhancement",
                                           EnhancementFallback(m.msg)),
                       calls |-> st.calls \o cs]
    IN IF m.enh_raises THEN failed(<<"enhance_and_suggest">>)
       ELSE IF "improved_resume" \in m.save_fails
            THEN failed(<<"enhance_and_suggest", "write_file">>)
       ELSE IF "resume_gaps" \in m.save_fails
            THEN failed(<<"enhance_and_suggest", "write_file", "write_file">>)
       ELSE [results |-> SetItem(st.results, "enhancement", EnhancementResult),
             calls |-> st.calls
                       \o <<"enhance_and_suggest", "write_file", "write_file">>]

\* Step 2: job search
Step2(m, st) ==
    LET failed(cs) ==
            [results |-> SetItem(SetItem(st.results, "jobs", <<>>),
                                 "job_search_error", m.msg),
             calls |-> st.calls \o cs]
        found == [i \in 1..m.search.n |-> i]
    IN IF m.search.raises THEN failed(<<"scrape_jobs">>)
       ELSE IF "jobs" \in m.save_fails
            THEN failed(<<"scrape_jobs", "write_file">>)
       ELSE [results |-> SetItem(st.results, "jobs", found),
             calls |-> st.calls \o <<"scrape_jobs", "write_file">>]

\* the dict cluster_jobs builds: every cluster id, with the jobs of its label
Clustered(labels, found) ==
    [c \in 0..(n_clusters - 1) |->
        LET HasLabel(j) == labels[j] = c IN SelectSeq(found, HasLabel)]

ClusterGateOpen(res) == TRUE

\* `if results.get('jobs')`
ClusterGate(res) == res["jobs"] # <<>>

NoFallback(found) == <<>>

\* {0: results['jobs']}
ClusterFallback(found) == [c \in {0} |-> found]

\* Step 3: job clustering, only if there are jobs
Step3(m, st) ==
    LET failed(cs) ==
            [results |-> SetItem(SetItem(st.results, "clusters",
                                         ClusterFallback(st.results["jobs"])),
                                 "clustering_error", m.msg),
             calls |-> st.calls \o cs]
    IN IF ClusterGate(st.results)
       THEN IF m.cluster.raises THEN failed(<<"cluster_jobs">>)
            ELSE IF "clusters" \in m.save_fails
                 THEN failed(<<"cluster_jobs", "write_file">>)
            ELSE [results |-> SetItem(st.results, "clusters",
                                      Clustered(m.cluster.labels, st.results["jobs"])),
                  calls |-> st.calls \o <<"cluster_jobs", "write_file">>]
       ELSE [results |-> SetItem(st.results, "clusters", <<>>),
             calls |-> st.calls]

\* for cluster_id, cluster_jobs in results['clusters'].items(), from cluster
\* id c on, with the questions q gathered so far
RECURSIVE QuestionLoop(_, _, _, _, _)
QuestionLoop(m, clusters, c, q, cs) ==
    IF c > n_clusters - 1 THEN [raised |-> FALSE, q |-> q, calls |-> cs]
    ELSE IF c \notin DOMAIN clusters \/ clusters[c] = <<>>
         THEN QuestionLoop(m, clusters, c + 1, q, cs)
    ELSE IF c \in m.iq_fail
         THEN [raised |-> TRUE, q |-> q,
               calls |-> Append(cs, "generate_interview_questions")]
    ELSE QuestionLoop(m, clusters, c + 1, SetItem(q, c, <<"question">>),
                      Append(cs, "generate_interview_questions"))

\* Step 4: interview questions, only if there are clusters
Step4(m, st) ==
    LET failed(cs) ==
            [results |-> SetItem(SetItem(st.results, "interview_questions", <<>>),
                                 "interview_error", m.msg),
             calls |-> cs]
    IN IF DOMAIN st.results["clusters"] # {}
       THEN LET loop == QuestionLoop(m, st.results["clusters"], 0, <<>>, st.calls)
            IN IF loop.raised THEN failed(loop.calls)
               ELSE IF "interview_questions" \in m.save_fails
                    THEN failed(Append(loop.calls, "write_file"))
               ELSE [results |-> SetItem(st.results, "interview_questions", loop.q),
                     calls |-> Append(loop.calls, "write_file")]
       ELSE [results |-> SetItem(st.results, "interview_questions", <<>>),
             calls |-> st.calls]

\* a pipeline that returns as soon as the enhancement step has failed
pipeline_stops_at_failure(m) ==
    LET s1 == Step1(m, [results |-> <<>>, calls |-> <<>>])
    IN IF "error" \in DOMAIN s1.results["enhancement"] THEN s1
       ELSE Step4(m, Step3(m, Step2(m, s1)))

run_enhancement_pipeline(m) ==
    Step4(m, Step3(m, Step2(m, Step1(m, [results |-> <<>>, calls |-> <<>>]))))

\* the line of the report for each step
generate_summary_report(res) ==
    [ enhancement |->
          IF "error" \in DOMAIN res["enhancement"] /\ res["enhancement"]["error"] # ""
          THEN "FAILED" ELSE "SUCCESS",
      jobs |-> IF res["jobs"] # <<>> THEN "SUCCESS" ELSE "LIMITED SUCCESS",
      clusters |-> IF DOMAIN res["clusters"] # {} THEN "SUCCESS" ELSE "SKIPPED",
      interview_questions |->
          IF DOMAIN res["interview_questions"] # {} THEN "SUCCESS" ELSE "SKIPPED" ]

(***************************************************************************)
(* Specification SpecPipe: one call of run_enhancement_pipeline with any   *)
(* behaviour of the step functions, then generate_summary_report on its    *)
(* result, as main does.                                                   *)
(***************************************************************************)
searcher_vars == <<resume_file, csv_file, max_results, resume_text, jobs,
                   result, job, score, worker>>

\* the values of the variables of searcher.py while main.py alone is run
NoSearch ==
    /\ resume_file = [ok |-> FALSE, text |-> <<>>]
    /\ csv_file = [ok |-> FALSE, rows |-> <<>>]
    /\ max_results = 0
    /\ resume_text = <<>>
    /\ jobs = <<>>
    /\ result = <<>>
    /\ job = <<>>
    /\ score = 0
    /\ worker = <<>>

InitPipe ==
    /\ pc = "ready"
    /\ mods \in ModuleBehaviours
    /\ results = <<>>
    /\ report = <<>>
    /\ calls = <<>>
    /\ NoSearch /\ NoMain

RunPipeline ==
    /\ pc = "ready"
    /\ LET out == run_enhancement_pipeline(mods)
       IN results' = out.results /\ calls' = out.calls
    /\ pc' = "returned"
    /\ UNCHANGED <<mods, report, searcher_vars, main_vars>>

SummaryReport ==
    /\ pc = "returned"
    /\ report' = generate_summary_report(results)
    /\ pc' = "reported"
    /\ UNCHANGED <<mods, results, calls, searcher_vars, main_vars>>

NextPipe == RunPipeline \/ SummaryReport

SpecPipe == InitPipe /\ [][NextPipe]_vars

(***************************************************************************)
(* main.py: check_environment, safe_import and the start of main.          *)
(*                                                                         *)
(* `env` is the environment of the process: the value of METIS_API_KEY     *)
(* ("unset" for a missing variable, "" for an empty one) and the set of    *)
(* third-party packages that are installed.  A module of the repository is *)
(* the set of names its top-level code defines; `from m import n` raises   *)
(* ImportError when m cannot be executed or does not define n.             *)
(***************************************************************************)
ThirdParty == {"google.generativeai", "google.api_core", "langchain_core",
               "pydantic", "pandas", "sklearn"}

ApiKeys == {"unset", "", "key"}

\* `not api_key` is true of None and of the empty string
check_environment(api_key) == api_key \notin {"unset", ""}

\* the third-party packages a module of the repository imports at top level
Requires(m) ==
    CASE m = "llms.metis_llm" -> {"google.generativeai", "google.api_core",
                                  "langchain_core", "pydantic"}
      [] m = "agents.searcher" -> {"pandas"}
      [] m = "agents.clusterer" -> {"sklearn"}
      [] OTHER -> {}

\* the names a module imports from other modules of the repository
ImportsFrom(m) ==
    CASE m = "agents.enhancer" ->
             {<<"llms.metis_llm", "MetisGeminiLLM">>,
              <<"prompts", "IMPROVE_RESUME_TEMPLATE">>,
              <<"prompts", "DETECT_GAPS_TEMPLATE">>,
              <<"prompts", "SUGGEST_SUBFIELDS_TEMPLATE">>}
      [] m = "agents.interviewer" ->
             {<<"llms.metis_llm", "MetisGeminiLLM">>,
              <<"prompts", "INTERVIEW_Q_TEMPLATE">>}
      [] OTHER -> {}

\* the names the live (not commented-out) top-level code of a module defines
Defines(m) ==
    CASE m = "agents.enhancer" -> {"llm", "enhance_and_suggest"}
      [] m = "agents.searcher" ->
             {"logger", "load_resume_text", "score_job_against_resume",
              "load_jobs_from_csv", "find_matching_jobs_from_resume"}
      [] m = "agents.clusterer" -> {"cluster_jobs"}
      [] m = "agents.interviewer" -> {"llm", "generate_interview_questions"}
      [] m = "utils" -> {"load_file", "write_file"}
      [] m = "llms.metis_llm" -> {"logger", "MetisGeminiLLM", "LLMResponse"}
      [] m = "prompts" -> {"IMPROVE_RESUME_TEMPLATE", "DETECT_GAPS_TEMPLATE",
                           "SUGGEST_SUBFIELDS_TEMPLATE", "INTERVIEW_Q_TEMPLATE"}

\* the top-level code of module m runs to its end
RECURSIVE Executes(_, _)
Executes(m, installed) ==
    /\ Requires(m) \subseteq installed
    /\ \A imp \in ImportsFrom(m) :
           Executes(imp[1], installed) /\ imp[2] \in Defines(imp[1])

\* the import statements of safe_import, in order
MainImports == << <<"agents.enhancer", "enhance_and_suggest">>,
                  <<"agents.searcher", "scrape_jobs">>,
                  <<"agents.clusterer", "cluster_jobs">>,
                  <<"agents.interviewer", "generate_interview_questions">>,
                  <<"utils", "load_file">>,
                  <<"utils", "write_file">> >>

NoneValue == [kind |-> "None", names |-> {}]

safe_import(installed) ==
    IF \A i \in 1..Len(MainImports) :
           /\ Executes(MainImports[i][1], installed)
           /\ MainImports[i][2] \in Defines(MainImports[i][1])
    THEN [kind |-> "dict",
          names |-> {MainImports[i][2] : i \in 1..Len(MainImports)}]
    ELSE NoneValue

InitMain ==
    /\ pc = "start"
    /\ env \in [api_key : ApiKeys, installed : SUBSET ThirdParty]
    /\ modules = [kind |-> "unset", names |-> {}]
    /\ exit_status = 0
    /\ calls = <<>>
    /\ NoSearch /\ NoPipe

\* main: if not check_environment(): sys.exit(1)
CheckEnvironment ==
    /\ pc = "start"
    /\ calls' = Append(calls, "check_environment")
    /\ IF check_environment(env.api_key)
       THEN pc' = "checked" /\ exit_status' = exit_status
       ELSE pc' = "exited" /\ exit_status' = 1
    /\ UNCHANGED <<env, modules, searcher_vars, pipe_vars>>

\* main: modules = safe_import(); if not modules: sys.exit(1)
SafeImport ==
    /\ pc = "checked"
    /\ calls' = Append(calls, "safe_import")
    /\ modules' = safe_import(env.installed)
    /\ IF modules'.kind = "None"
       THEN pc' = "exited" /\ exit_status' = 1
       ELSE pc' = "imported" /\ exit_status' = exit_status
    /\ UNCHANGED <<env, searcher_vars, pipe_vars>>

NextMain == CheckEnvironment \/ SafeImport

SpecMain == InitMain /\ [][NextMain]_vars

(***************************************************************************)
(* Properties of find_matching_jobs_from_resume (Spec)                     *)
(***************************************************************************)
\* the postings of the job source, as they were before the call
Input == csv_file.rows

MatchScore(ref) == jobs[ref]["match_score"].n

InResult(ref) == \E i \in 1..Len(result) : result[i] = ref

Min(a, b) == IF a < b THEN a ELSE b

\* the sort and the slice were reached
Ranked == pc = "returned" /\ calls # <<>> /\ calls[Len(calls)] = "sorted"

\* C2: for a non-empty resume text, a positive max_results and any list of
\* postings, the result holds only postings of the input, none more often
\* than the input does, and has exactly min(max_results, len(postings))
\* elements.
C2_ResultIsSubListOfLength ==
    (/\ pc # "ready"
     /\ resume_file.ok /\ resume_file.text # <<>>
     /\ csv_file.ok
     /\ max_results > 0)
    => /\ pc = "returned"
       /\ \A i \in 1..Len(result) : result[i] \in 1..Len(Input)
       /\ \A i, j \in 1..Len(result) : i # j => result[i] # result[j]
       /\ Len(result) = Min(max_results, Len(Input))

\* three postings, two of them with the same content, cut to two
C2_Witness ==
    /\ Ranked
    /\ max_results = 2
    /\ Len(Input) = 3
    /\ Input[1] = Input[3]
    /\ Len(result) = 2

\* C3: adjacent postings of the result are in descending order of
\* match_score, and no posting left out scores strictly more than a posting
\* of the result.
C3_DescendingTopK ==
    Ranked =>
        /\ \A i \in 1..(Len(result) - 1) :
               MatchScore(result[i]) >= MatchScore(result[i + 1])
        /\ \A out \in 1..Len(jobs) : \A i \in 1..Len(result) :
               ~InResult(out) => MatchScore(out) <= MatchScore(result[i])

\* the input is in ascending order of score, the result keeps the best two
C3_Witness ==
    /\ Ranked
    /\ max_results = 2
    /\ Len(jobs) = 3
    /\ MatchScore(1) < MatchScore(2) /\ MatchScore(2) < MatchScore(3)
    /\ result = <<3, 2>>

\* C4: the descending sort is stable: of two postings of the result with the
\* same match_score the earlier of the input comes first, and of equal-scored
\* postings on both sides of the cut the earlier ones are kept.
C4_StableTies ==
    Ranked =>
        /\ \A i, j \in 1..Len(result) :
               (i < j /\ MatchScore(result[i]) = MatchScore(result[j]))
                   => result[i] < result[j]
        /\ \A out \in 1..Len(jobs) : \A i \in 1..Len(result) :
               (~InResult(out) /\ MatchScore(out) = MatchScore(result[i]))
                   => result[i] < out

\* three different postings with one positive score, cut to two
C4_Witness ==
    /\ Ranked
    /\ max_results = 2
    /\ Len(jobs) = 3
    /\ Input[1] # Input[2] /\ Input[2] # Input[3] /\ Input[1] # Input[3]
    /\ MatchScore(1) = MatchScore(2) /\ MatchScore(2) = MatchScore(3)
    /\ MatchScore(1) > 0
    /\ result = <<1, 2>>

\* C5: an empty resume text with postings available is no error: every
\* posting gets match_score 0 and the result is the first max_results
\* postings of the input in their order.
C5_EmptyResumeStillRanks ==
    (/\ pc # "ready"
     /\ resume_file.ok /\ resume_file.text = <<>>
     /\ csv_file.ok /\ Input # <<>>
     /\ max_results > 0)
    => /\ pc = "returned"
       /\ Len(jobs) = Len(Input)
       /\ \A i \in 1..Len(jobs) :
              "match_score" \in DOMAIN jobs[i] /\ jobs[i]["match_score"] = IntVal(0)
       /\ result = [i \in 1..Min(max_results, Len(Input)) |-> i]

\* C6: a failure of a collaborator never reaches the caller as an exception;
\* when loading the postings fails the call returns an empty sequence.
C6_LoadFailuresAbsorbed ==
    /\ pc # "raised"
    /\ (pc # "ready" /\ ~csv_file.ok) => (pc = "returned" /\ result = <<>>)

\* C7: when reading the resume fails, load_resume_text yields the empty
\* string and the call returns an empty list without raising, without
\* loading the postings and without scoring.
C7_ResumeFailureReturnsEmpty ==
    (pc # "ready" /\ ~resume_file.ok)
    => /\ resume_text = <<>>
       /\ pc = "returned"
       /\ result = <<>>
       /\ jobs = <<>>
       /\ calls = <<"load_resume_text">>

\* the resume cannot be read while the job source holds postings
C7_Witness ==
    /\ pc = "returned"
    /\ ~resume_file.ok
    /\ csv_file.ok /\ Len(Input) = 2

\* C8: the call changes nothing of its inputs but the 'match_score' key of
\* each posting: every other key and value of every posting is as in the
\* input, the resume text is the text that was read, and every returned
\* posting carries the score of that posting against the resume text.
C8_OnlyMatchScoreWritten ==
    pc # "ready" =>
        /\ jobs # <<>> => Len(jobs) = Len(Input)
        /\ \A i \in 1..Len(jobs) :
               /\ DOMAIN jobs[i] \ {"match_score"} = DOMAIN Input[i] \ {"match_score"}
               /\ \A k \in DOMAIN Input[i] \ {"match_score"} : jobs[i][k] = Input[i][k]
        /\ resume_file.ok => resume_text = resume_file.text
        /\ \A i \in 1..Len(result) :
               /\ "match_score" \in DOMAIN jobs[result[i]]
               /\ jobs[result[i]]["match_score"]
                      = IntVal(score_job_against_resume(jobs[result[i]], resume_text))
               /\ jobs[result[i]]["match_score"]
                      = IntVal(score_job_against_resume(Input[result[i]], resume_text))

\* a file with a match_score column of its own: the stale value is replaced,
\* the other columns are kept
C8_Witness ==
    /\ Ranked
    /\ max_results = 2
    /\ Len(result) = 2
    /\ "match_score" \in DOMAIN Input[1]
    /\ Input[1]["match_score"] # jobs[1]["match_score"]
    /\ jobs[1]["Company"] = Input[1]["Company"]

(***************************************************************************)
(* Properties of score_job_against_resume (SpecScore)                      *)
(***************************************************************************)
\* The words of a text, stated without the scanner: the maximal runs of
\* non-whitespace characters of the lower-cased text.
TokenSet(t) ==
    LET L == [i \in 1..Len(t) |-> IF t[i] = "A" THEN "a" ELSE t[i]]
        Runs == {p \in (1..Len(L)) \X (1..Len(L)) :
                    /\ p[1] <= p[2]
                    /\ \A k \in p[1]..p[2] : L[k] \notin {" ", "\t", "\n"}
                    /\ (p[1] = 1 \/ L[p[1] - 1] \in {" ", "\t", "\n"})
                    /\ (p[2] = Len(L) \/ L[p[2] + 1] \in {" ", "\t", "\n"})}
    IN {SubSeq(L, p[1], p[2]) : p \in Runs}

\* the text of a field: the string form of its value, empty when absent
FieldText(d, key) == IF key \in DOMAIN d THEN PyStr(d[key]) ELSE <<>>

Contribution(d, text, key) ==
    Cardinality(TokenSet(text) \cap TokenSet(FieldText(d, key)))

\* C1: the returned score is a non-negative integer equal to the sum, over the
\* five checked fields, of the number of tokens common to the resume token set
\* and the field's token set (lower-cased whitespace-separated words, no
\* punctuation stripping), a token found in k fields being counted k times.
C1_ScoreIsSumOfOverlaps ==
    pc = "returned" =>
        /\ score \in Nat
        /\ score = Contribution(job, resume_text, "skills")
                 + Contribution(job, resume_text, "Job Title")
                 + Contribution(job, resume_text, "Job Description")
                 + Contribution(job, resume_text, "location")
                 + Contribution(job, resume_text, "Role")

\* a resume of one token, in upper case, counted in two fields or more, while
\* a field holds that token with a comma attached
C1_Witness ==
    /\ pc = "returned"
    /\ resume_text = <<"A">>
    /\ score >= 2
    /\ \E key \in DOMAIN job : <<"a", ",">> \in TokenSet(FieldText(job, key))

RECURSIVE SumContributions(_, _, _)
SumContributions(d, text, keys) ==
    IF keys = {} THEN 0
    ELSE LET key == CHOOSE x \in keys : TRUE
         IN Contribution(d, text, key) + SumContributions(d, text, keys \ {key})

\* C10: a checked field absent from the posting is no error and contributes 0:
\* the call returns, its score is the sum of the contributions of the checked
\* fields the posting has, and 0 when it has none of them.
C10_AbsentFieldContributesZero ==
    pc = "returned" =>
        /\ score = SumContributions(job, resume_text,
                                    {"skills", "Job Title", "Job Description",
                                     "location", "Role"} \cap DOMAIN job)
        /\ (DOMAIN job \cap {"skills", "Job Title", "Job Description",
                             "location", "Role"} = {} => score = 0)

\* a posting without 'location' whose other fields score, for a resume that
\* holds the word "0"
C10_Witness ==
    /\ pc = "returned"
    /\ "location" \notin DOMAIN job
    /\ <<"0">> \in TokenSet(resume_text)
    /\ score > 0

(***************************************************************************)
(* Properties of the scoring by independent workers (SpecPar)              *)
(***************************************************************************)
CheckedPart(d) == [k \in DOMAIN d \cap ScoreKeys |-> d[k]]

C11_NoPostingsReturnsEmpty ==
    (pc # "ready" /\ csv_file.ok /\ Input = <<>>)
    => /\ pc = "returned"
       /\ result = <<>>
       /\ \A i \in 1..Len(calls) :
              calls[i] \notin {"score_job_against_resume", "sorted"}

\* a readable resume with words, a job source without records
C11_Witness ==
    /\ pc = "returned"
    /\ resume_text = <<"A", " ", "0">>
    /\ csv_file.ok /\ Input = <<>>
    /\ calls = <<"load_resume_text", "load_jobs_from_csv">>
    /\ max_results = 2

\* C12: a call with max_results <= 0 is clamped or refused: with postings and
\* a non-empty resume the call raises, or returns the result of max_results
\* clamped to 0 or to the least valid value 1, so that the number of postings
\* returned does not grow with the number of postings of the input.
C12_NonPositiveMaxResultsClamped ==
    (/\ pc # "ready"
     /\ max_results <= 0
     /\ resume_file.ok /\ resume_file.text # <<>>
     /\ csv_file.ok /\ Input # <<>>)
    => \/ pc = "raised"
       \/ (pc = "returned" /\ Len(result) <= 1)

(***************************************************************************)
(* Properties of run_enhancement_pipeline and generate_summary_report      *)
(* (SpecPipe)                                                              *)
(***************************************************************************)
Called(f) == \E i \in 1..Len(calls) : calls[i] = f

CallCount(f) == Cardinality({i \in 1..Len(calls) : calls[i] = f})

ResultKeys == {"enhancement", "jobs", "clusters", "interview_questions"}

EnhancementFailed == "error" \in DOMAIN results["enhancement"]

\* C13 as stated: no exception of a step reaches the caller, the dict
\* returned has the four keys, and when a step has failed the step function
\* of the step after it is still called.
C13_FailureNeverStopsNextStep ==
    pc # "ready" =>
        /\ pc \in {"returned", "reported"}
        /\ ResultKeys \subseteq DOMAIN results
        /\ EnhancementFailed => Called("scrape_jobs")
        /\ "job_search_error" \in DOMAIN results => Called("cluster_jobs")
        /\ "clustering_error" \in DOMAIN results
               => Called("generate_interview_questions")

\* C13 amended: no exception of a step reaches the caller and the dict
\* returned has the four keys; the job search is attempted whether or not the
\* enhancement failed, and the interview questions are attempted after a
\* failed clustering; after a failed job search there are no jobs, and
\* clustering and interview questions are skipped.
C13_FailuresAbsorbed ==
    pc # "ready" =>
        /\ pc \in {"returned", "reported"}
        /\ ResultKeys \subseteq DOMAIN results
        /\ Called("enhance_and_suggest") /\ Called("scrape_jobs")
        /\ "clustering_error" \in DOMAIN results
               => Called("generate_interview_questions")
        /\ "job_search_error" \in DOMAIN results
               => /\ ~Called("cluster_jobs")
                  /\ ~Called("generate_interview_questions")

\* the enhancement, the clustering and the interview questions fail in one
\* run, the search finds jobs
C13_Witness ==
    /\ pc = "returned"
    /\ mods.enh_raises /\ mods.cluster.raises /\ mods.iq_fail = {0}
    /\ mods.search.n = 2 /\ mods.save_fails = {}
    /\ EnhancementFailed
    /\ results["jobs"] = <<1, 2>>
    /\ "clustering_error" \in DOMAIN results
    /\ "interview_error" \in DOMAIN results

\* the place of a call in the fixed order of the steps
StepRank(f) == CASE f = "enhance_and_suggest" -> 1
                 [] f = "scrape_jobs" -> 2
                 [] f = "cluster_jobs" -> 3
                 [] f = "generate_interview_questions" -> 4

StepFunctions == {"enhance_and_suggest", "scrape_jobs", "cluster_jobs",
                  "generate_interview_questions"}

NonEmptyClusters ==
    {c \in DOMAIN results["clusters"] : results["clusters"][c] # <<>>}

\* C14: the steps run in the order enhancement, job search, clustering,
\* interview questions; cluster_jobs is called only if the search produced a
\* non-empty list, generate_interview_questions only for non-empty clusters
\* of a non-empty cluster map; when the search fails or finds nothing neither
\* is called and jobs, clusters and interview_questions are empty.
C14_OrderAndGates ==
    pc # "ready" =>
        /\ \A i, j \in 1..Len(calls) :
               (/\ calls[i] \in StepFunctions /\ calls[j] \in StepFunctions
                /\ StepRank(calls[i]) < StepRank(calls[j])) => i < j
        /\ CallCount("enhance_and_suggest") = 1
        /\ CallCount("scrape_jobs") = 1
        /\ CallCount("cluster_jobs") <= 1
        /\ Called("cluster_jobs") => (~mods.search.raises /\ mods.search.n > 0)
        /\ CallCount("generate_interview_questions") <= Cardinality(NonEmptyClusters)
        /\ (mods.search.raises \/ mods.search.n = 0)
               => /\ ~Called("cluster_jobs")
                  /\ ~Called("generate_interview_questions")
                  /\ results["jobs"] = <<>>
                  /\ DOMAIN results["clusters"] = {}
                  /\ DOMAIN results["interview_questions"] = {}

\* three jobs in two of the three clusters: every step runs, and the
\* questions are generated twice
C14_Witness ==
    /\ pc = "returned"
    /\ results["clusters"] = Clustered(<<0, 0, 2>>, <<1, 2, 3>>)
    /\ CallCount("generate_interview_questions") = 2
    /\ calls = <<"enhance_and_suggest", "write_file", "write_file",
                 "scrape_jobs", "write_file", "cluster_jobs", "write_file",
                 "generate_interview_questions",
                 "generate_interview_questions", "write_file">>

\* the number of places a found job has in the clusters
PlacesOf(j) ==
    Cardinality({p \in (DOMAIN results["clusters"]) \X (1..MaxFound) :
                    /\ p[2] <= Len(results["clusters"][p[1]])
                    /\ results["clusters"][p[1]][p[2]] = j})

\* C15: when jobs were found and the clustering step raises, the pipeline
\* records clustering_error and falls back to the one cluster {0: all found
\* jobs}: every found job is in exactly one cluster, and the interview
\* questions are still attempted for that cluster.
C15_ClusteringFallback ==
    (/\ pc # "ready"
     /\ results["jobs"] # <<>>
     /\ (mods.cluster.raises \/ "clusters" \in mods.save_fails))
    => /\ "clustering_error" \in DOMAIN results
       /\ DOMAIN results["clusters"] = {0}
       /\ results["clusters"][0] = results["jobs"]
       /\ results["jobs"] = [i \in 1..mods.search.n |-> i]
       /\ \A j \in 1..mods.search.n : PlacesOf(j) = 1
       /\ CallCount("generate_interview_questions") = 1

\* cluster_jobs raises on three found jobs and the questions are generated
C15_Witness ==
    /\ pc = "returned"
    /\ mods.cluster.raises
    /\ results["jobs"] = <<1, 2, 3>>
    /\ 0 \in DOMAIN results["interview_questions"]
    /\ "interview_error" \notin DOMAIN results

\* C16: the report marks no step SUCCESS for which the pipeline recorded an
\* error: a step is SUCCESS only if it completed without a recorded error.
C16_ReportAcknowledgesFailures ==
    pc = "reported" =>
        /\ EnhancementFailed => report.enhancement # "SUCCESS"
        /\ "job_search_error" \in DOMAIN results => report.jobs # "SUCCESS"
        /\ "clustering_error" \in DOMAIN results => report.clusters # "SUCCESS"
        /\ "interview_error" \in DOMAIN results
               => report.interview_questions # "SUCCESS"

\* C18: the result recorded for a step is the outcome of the step function,
\* not of saving it: when enhance_and_suggest returns, results['enhancement']
\* is its value without an 'error' key, and when the search returns a list,
\* results['jobs'] is that list, whether or not the save that follows fails.
C18_ResultReflectsStepFunction ==
    pc # "ready" =>
        /\ ~mods.enh_raises
               => (results["enhancement"] = EnhancementResult /\ ~EnhancementFailed)
        /\ ~mods.search.raises
               => results["jobs"] = [i \in 1..mods.search.n |-> i]

(***************************************************************************)
(* Properties of safe_import and main (SpecMain)                           *)
(***************************************************************************)
\* C17: with every third-party dependency installed and METIS_API_KEY set,
\* safe_import returns the dictionary of the six imported names, not None,
\* and main goes on towards run_enhancement_pipeline instead of exiting with
\* status 1.
C17_SafeImportSucceeds ==
    (/\ pc \notin {"start", "checked"}
     /\ env.installed = ThirdParty
     /\ env.api_key = "key")
    => /\ pc = "imported"
       /\ modules = [kind |-> "dict",
                     names |-> {"enhance_and_suggest", "scrape_jobs",
                                "cluster_jobs", "generate_interview_questions",
                                "load_file", "write_file"}]
       /\ exit_status = 0

====
